---- MODULE Spec2Model ----
(***************************************************************************)
(* Verification model of the topical authority pipeline of                 *)
(* apps/api/seo_analyzer.py: SEOAnalyzer.crawl_website, extract_topics,    *)
(* analyze_domain, calculate_topical_authority_score, generate_report and  *)
(* main, of save_report of apps/api/services/storage.py, and of            *)
(* analyze_seo_keywords (apps/api/analyzers/keywords.py) and               *)
(* get_all_ai_insights (apps/api/analyzers/ai_insights.py).                *)
(*                                                                         *)
(* Strings that the code takes apart (URLs) are sequences of one-character *)
(* strings.  Floating point values are fixed-point integers; the unit is   *)
(* stated at each definition.                                              *)
(***************************************************************************)
EXTENDS Integers, Sequences, FiniteSets, TLC

VARIABLES
    \* ---- crawl_website (seo_analyzer.py:86-166) ----
    url,          \* the seed URL argument
    max_pages,    \* the max_pages argument
    visited,      \* set of URL strings
    to_visit,     \* the frontier list
    pages_data,   \* the list of page records built so far
    crawl_pc,     \* "loop" | "returned" | "raised"
    requests,     \* history: the URLs handed to session.get, in order
    last_fetch,   \* history: what the latest loop iteration did
    \* ---- extract_topics (seo_analyzer.py:169-295) ----
    topics_pc,    \* "idle" | "start" | "fitted" | "returned" | "raised"
    reducer_calls,   \* history: the n_neighbors of every UMAP fit started
    clusterer_calls, \* history: the number of HDBSCAN fits started
    embeddings,   \* one embedding per page (its direction, in degrees)
    topics,       \* the topic id fit_transform gave each page
    topic_data,   \* the dictionary extract_topics returns
    \* ---- calculate_topical_authority_score (seo_analyzer.py:488-563) ----
    domain_metrics,   \* the dictionary analyze_domain returns
    authority_score,  \* the dictionary the scorer returns
    score_pc,         \* "idle" | "start" | "returned" | "raised"
    \* ---- main and analyze_domain (seo_analyzer.py:1030-1096, 329-472) ----
    main_pc,          \* "idle" or the step of main() that comes next
    moz_access_id,    \* self.moz_access_id: "" when not configured
    moz_secret_key,   \* self.moz_secret_key: "" when not configured
    moz_requests,     \* history: the number of requests sent to the Moz API
    moz_response,     \* history: what the latest Moz request came back with
    \* ---- save_report (services/storage.py:9-33) ----
    clock,            \* int(time.time() * 1000)
    supabase_url,     \* SUPABASE_URL: "" when not configured
    supabase_service_key,  \* SUPABASE_SERVICE_KEY: "" when not configured
    seo_reports,      \* the rows of the Supabase table seo_reports
    data_files,       \* the files report-<id>.json of DATA_DIR: id -> content
    save_log,         \* history: one record per finished save_report call
    \* ---- two runs of main in one working directory ----
    runs,             \* per run: its step and its local variables
    cwd_files,        \* the files of the working directory: name -> content
    \* ---- analyze_seo_keywords (analyzers/keywords.py:77-180) ----
    kw_args,          \* the arguments of the call: text, url, title, top_n
    serp_data,        \* history: what analyze_serp_results came back with
    kw_result,        \* the dictionary analyze_seo_keywords returns
    \* ---- get_all_ai_insights (analyzers/ai_insights.py:541-588) ----
    ai_keys,          \* the API key of each provider: "" when not set
    ai_results,       \* history: the results dictionary of the call
    ai_return         \* the dictionary get_all_ai_insights returns

crawlVars == <<url, max_pages, visited, to_visit, pages_data, crawl_pc,
               requests, last_fetch>>

topicVars == <<topics_pc, reducer_calls, clusterer_calls, embeddings, topics,
               topic_data>>

scoreVars == <<domain_metrics, authority_score, score_pc>>

mainVars == <<main_pc, moz_access_id, moz_secret_key, moz_requests,
              moz_response>>

storeVars == <<clock, supabase_url, supabase_service_key, seo_reports,
               data_files, save_log>>

runVars == <<runs, cwd_files>>

analyzerVars == <<kw_args, serp_data, kw_result, ai_keys, ai_results,
                  ai_return>>

vars == <<url, max_pages, visited, to_visit, pages_data, crawl_pc,
          requests, last_fetch,
          topics_pc, reducer_calls, clusterer_calls, embeddings, topics,
          topic_data,
          domain_metrics, authority_score, score_pc,
          main_pc, moz_access_id, moz_secret_key, moz_requests, moz_response,
          clock, supabase_url, supabase_service_key, seo_reports, data_files,
          save_log,
          runs, cwd_files,
          kw_args, serp_data, kw_result, ai_keys, ai_results, ai_return>>

-----------------------------------------------------------------------------
(* Bounds of the model *)

MaxPagesArg == 2      \* max_pages is drawn from 0..MaxPagesArg
MaxLinks == 2         \* a fetched page holds at most MaxLinks <a href> tags
MaxDocs == 5          \* extract_topics is given at most MaxDocs pages
MaxTopicId == 1       \* the clusterer returns topic ids in -1..MaxTopicId

-----------------------------------------------------------------------------
(* URL strings *)

Slash == "/"

SeedUrl    == <<"h", ":", "/", "/", "a">>                 \* h://a
PageOne    == <<"h", ":", "/", "/", "a", "/", "1">>       \* h://a/1
PrefixHost == <<"h", ":", "/", "/", "a", "b">>            \* h://ab
PrefixPage == <<"h", ":", "/", "/", "a", "b", "/", "1">>  \* h://ab/1
OtherHost  == <<"h", ":", "/", "/", "b">>                 \* h://b
RelOne     == <<"/", "1">>                                \* /1
BadHref    == <<"h", ":", "/", "/", "[">>                 \* h://[

\* the href attribute values a page may hold
Hrefs == {SeedUrl, PrefixHost, OtherHost, RelOne, BadHref}

StartsWith(s, p) ==
    /\ Len(p) <= Len(s)
    /\ SubSeq(s, 1, Len(p)) = p

\* index of the first occurrence of character c in s at or after i, else 0
RECURSIVE IndexFrom(_, _, _)
IndexFrom(s, c, i) ==
    IF i > Len(s) THEN 0
    ELSE IF s[i] = c THEN i
    ELSE IndexFrom(s, c, i + 1)

HasScheme(s) ==
    LET k == IndexFrom(s, ":", 1)
    IN  k > 1

\* urlparse(u).scheme
Scheme(u) ==
    LET k == IndexFrom(u, ":", 1)
    IN  IF k > 1 THEN SubSeq(u, 1, k - 1) ELSE <<>>

\* urlparse(u).netloc: what follows "//" up to the next "/"
Netloc(u) ==
    LET k    == IndexFrom(u, ":", 1)
        rest == IF k > 1 THEN SubSeq(u, k + 1, Len(u)) ELSE u
    IN  IF StartsWith(rest, <<"/", "/">>)
        THEN LET e == IndexFrom(rest, Slash, 3)
             IN  IF e = 0 THEN SubSeq(rest, 3, Len(rest))
                 ELSE SubSeq(rest, 3, e - 1)
        ELSE <<>>

\* f"{parsed.scheme}://{parsed.netloc}"
BaseDomain(u) == Scheme(u) \o <<":", "/", "/">> \o Netloc(u)

\* urlsplit raises ValueError on a netloc with an unbalanced bracket
UrlRaises(href) ==
    LET n == Netloc(href)
    IN  (IndexFrom(n, "[", 1) > 0) /= (IndexFrom(n, "]", 1) > 0)

\* urljoin(base, href) for an absolute href and for an absolute-path href
UrlJoin(base, href) ==
    IF HasScheme(href) THEN href
    ELSE IF StartsWith(href, <<Slash>>) THEN BaseDomain(base) \o href
    ELSE base

-----------------------------------------------------------------------------
(* What the page fetcher returns *)

TitleLens == {0, 1}
MetaLens  == {0}
BodyLens  == {0, 45, 46}

\* the lists of at most n hrefs
RECURSIVE SeqsUpTo(_, _)
SeqsUpTo(S, n) ==
    IF n = 0 THEN {<<>>}
    ELSE LET shorter == SeqsUpTo(S, n - 1)
         IN  shorter \cup {Append(s, x) : s \in {t \in shorter : Len(t) = n - 1}, x \in S}

LinkLists == SeqsUpTo(Hrefs, MaxLinks)

\* len(f"{title}. {meta_desc}. {body_text}".strip())
FullTextLen(title, meta, body) ==
    IF body = 0 THEN title + 2 + meta + 1
    ELSE title + 2 + meta + 2 + body

MinContentLen == 50

-----------------------------------------------------------------------------
(* crawl_website *)

\* the while condition with the budget test off by one
LoopCondition_OffByOne(frontier, pages, limit) ==
    /\ frontier /= <<>>
    /\ Len(pages) <= limit

\* the while condition: to_visit and len(pages_data) < max_pages
LoopCondition(frontier, pages, limit) ==
    /\ frontier /= <<>>
    /\ Len(pages) < limit

\* if len(full_text.strip()) > 50: pages_data.append({...})
AppendPage(pages, u, title, meta, body) ==
    IF FullTextLen(title, meta, body) > MinContentLen
    THEN Append(pages, [url |-> u, title |-> title, meta_description |-> meta,
                        body_text |-> body,
                        full_text |-> FullTextLen(title, meta, body)])
    ELSE pages

\* if full_url.startswith(base_domain) and full_url not in visited
IsInternal(full_url, base_domain, vis) ==
    /\ StartsWith(full_url, base_domain)
    /\ full_url \notin vis

\* the same loop with to_visit.insert(0, full_url) for to_visit.append(full_url)
RECURSIVE EnqueueLinks_AtFront(_, _, _, _, _)
EnqueueLinks_AtFront(frontier, links, current, base_domain, vis) ==
    IF links = <<>> THEN frontier
    ELSE IF UrlRaises(Head(links)) THEN frontier
    ELSE LET full_url == UrlJoin(current, Head(links))
         IN  EnqueueLinks_AtFront(
                 IF IsInternal(full_url, base_domain, vis)
                 THEN <<full_url>> \o frontier ELSE frontier,
                 Tail(links), current, base_domain, vis)

\* the for loop over soup.find_all('a', href=True); an href on which urljoin
\* raises ends the loop (the except clause then continues the while loop)
RECURSIVE EnqueueLinks(_, _, _, _, _)
EnqueueLinks(frontier, links, current, base_domain, vis) ==
    IF links = <<>> THEN frontier
    ELSE IF UrlRaises(Head(links)) THEN frontier
    ELSE LET full_url == UrlJoin(current, Head(links))
         IN  EnqueueLinks(
                 IF IsInternal(full_url, base_domain, vis)
                 THEN Append(frontier, full_url) ELSE frontier,
                 Tail(links), current, base_domain, vis)

\* a fetched URL that is not recorded as visited
MarkVisited_Forgets(vis, u) == vis

\* visited.add(current_url)
MarkVisited(vis, u) == vis \cup {u}

\* a skipped URL that stays at the head of the frontier
FrontierAfterSkip_KeepsHead(frontier) == frontier

\* current_url = to_visit.pop(0) followed by continue
FrontierAfterSkip(frontier) == Tail(frontier)

\* the loop body without its try/except: the exception leaves the call
AfterFetchError_Propagates == "raised"

\* where the call stands after the except clause of the loop body
AfterFetchError == "loop"

\* where visited stands after a request that raised (get or raise_for_status)
VisitedAfterError(vis, u) == vis

\* extract_topics has not been called
TopicsIdle ==
    /\ topics_pc = "idle"
    /\ reducer_calls = <<>>
    /\ clusterer_calls = 0
    /\ embeddings = <<>>
    /\ topics = <<>>
    /\ topic_data = [pending |-> TRUE]

\* calculate_topical_authority_score has not been called
ScoreIdle ==
    /\ domain_metrics = [pending |-> TRUE]
    /\ authority_score = [pending |-> TRUE]
    /\ score_pc = "idle"

\* main() is not running
MainIdle ==
    /\ main_pc = "idle"
    /\ moz_access_id = ""
    /\ moz_secret_key = ""
    /\ moz_requests = 0
    /\ moz_response = [kind |-> "none"]

\* save_report has not been called
StoreIdle ==
    /\ clock = 0
    /\ supabase_url = ""
    /\ supabase_service_key = ""
    /\ seo_reports = {}
    /\ data_files = <<>>
    /\ save_log = <<>>

\* no run has started
RunsIdle ==
    /\ runs = <<>>
    /\ cwd_files = <<>>

\* neither analyze_seo_keywords nor get_all_ai_insights has been called
AnalyzersIdle ==
    /\ kw_args = <<>>
    /\ serp_data = <<>>
    /\ kw_result = <<>>
    /\ ai_keys = <<>>
    /\ ai_results = <<>>
    /\ ai_return = <<>>

CrawlInit ==
    /\ url = SeedUrl
    /\ max_pages \in 0..MaxPagesArg
    /\ visited = {}
    /\ to_visit = <<url>>
    /\ pages_data = <<>>
    /\ crawl_pc = "loop"
    /\ requests = <<>>
    /\ last_fetch = [kind |-> "none"]
    /\ TopicsIdle
    /\ ScoreIdle
    /\ MainIdle
    /\ StoreIdle
    /\ RunsIdle
    /\ AnalyzersIdle

\* current_url in visited: continue
CrawlSkipVisited ==
    /\ crawl_pc = "loop"
    /\ LoopCondition(to_visit, pages_data, max_pages)
    /\ Head(to_visit) \in visited
    /\ to_visit' = FrontierAfterSkip(to_visit)
    /\ last_fetch' = [kind |-> "skip", url |-> Head(to_visit)]
    /\ UNCHANGED <<url, max_pages, visited, pages_data, crawl_pc, requests>>
    /\ UNCHANGED <<topicVars, scoreVars, mainVars, storeVars, runVars, analyzerVars>>

\* session.get or raise_for_status raises: logged, continue
CrawlFetchFail ==
    /\ crawl_pc = "loop"
    /\ LoopCondition(to_visit, pages_data, max_pages)
    /\ Head(to_visit) \notin visited
    /\ requests' = Append(requests, Head(to_visit))
    /\ to_visit' = Tail(to_visit)
    /\ visited' = VisitedAfterError(visited, Head(to_visit))
    /\ crawl_pc' = AfterFetchError
    /\ last_fetch' = [kind |-> "fail", url |-> Head(to_visit)]
    /\ UNCHANGED <<url, max_pages, pages_data>>
    /\ UNCHANGED <<topicVars, scoreVars, mainVars, storeVars, runVars, analyzerVars>>

\* the request succeeds: mark visited, keep the page if it has content,
\* enqueue its internal links while the budget is not used up
CrawlFetchOk ==
    /\ crawl_pc = "loop"
    /\ LoopCondition(to_visit, pages_data, max_pages)
    /\ Head(to_visit) \notin visited
    /\ \E title \in TitleLens, meta \in MetaLens, body \in BodyLens,
          links \in LinkLists :
          LET current_url == Head(to_visit)
              vis         == MarkVisited(visited, current_url)
              pages       == AppendPage(pages_data, current_url, title, meta, body)
          IN  /\ requests' = Append(requests, current_url)
              /\ visited' = vis
              /\ pages_data' = pages
              /\ to_visit' =
                    IF Len(pages) < max_pages
                    THEN EnqueueLinks(Tail(to_visit), links, current_url,
                                      BaseDomain(url), vis)
                    ELSE Tail(to_visit)
              /\ last_fetch' = [kind |-> "ok", url |-> current_url]
    /\ UNCHANGED <<url, max_pages, crawl_pc>>
    /\ UNCHANGED <<topicVars, scoreVars, mainVars, storeVars, runVars, analyzerVars>>

\* the while condition is false: return pages_data
CrawlReturn ==
    /\ crawl_pc = "loop"
    /\ ~LoopCondition(to_visit, pages_data, max_pages)
    /\ crawl_pc' = "returned"
    /\ last_fetch' = [kind |-> "return"]
    /\ UNCHANGED <<url, max_pages, visited, to_visit, pages_data, requests>>
    /\ UNCHANGED <<topicVars, scoreVars, mainVars, storeVars, runVars, analyzerVars>>

CrawlNext ==
    \/ CrawlSkipVisited
    \/ CrawlFetchFail
    \/ CrawlFetchOk
    \/ CrawlReturn

SpecCrawl == CrawlInit /\ [][CrawlNext]_vars

\* the loop is sequential code: whenever a step is possible, one is taken
SpecCrawlFair == SpecCrawl /\ WF_vars(CrawlNext)

-----------------------------------------------------------------------------
(* Numbers *)

\* natural logarithms of the primes, in units of 1e-5
LnPrime == [p \in {2, 3, 5, 7, 11, 13} |->
              CASE p = 2 -> 69315 [] p = 3 -> 109861 [] p = 5 -> 160944
                [] p = 7 -> 194591 [] p = 11 -> 239790 [] p = 13 -> 256495]

SmallestPrimeFactor(n) ==
    CHOOSE p \in DOMAIN LnPrime :
        /\ n % p = 0
        /\ \A q \in DOMAIN LnPrime : q < p => n % q /= 0

\* np.log(n) for a positive integer n, in units of 1e-5
RECURSIVE Ln(_)
Ln(n) ==
    IF n = 1 THEN 0
    ELSE LET p == SmallestPrimeFactor(n)
         IN  LnPrime[p] + Ln(n \div p)

\* a / b to the nearest integer, b > 0
RoundDiv(a, b) == (2 * a + b) \div (2 * b)

RECURSIVE SumSeq(_)
SumSeq(s) == IF s = <<>> THEN 0 ELSE Head(s) + SumSeq(Tail(s))

\* the elements of a finite set of integers in increasing order
RECURSIVE SortedSeq(_)
SortedSeq(S) ==
    IF S = {} THEN <<>>
    ELSE LET lo == CHOOSE x \in S : \A y \in S : x <= y
         IN  <<lo>> \o SortedSeq(S \ {lo})

-----------------------------------------------------------------------------
(* extract_topics *)

OutlierId == 0 - 1

TopicIds == OutlierId..MaxTopicId

\* the directions sentence_model.encode may give a page, in degrees
EmbeddingAngles == {0, 120}

\* cosine_similarity of two embeddings, in thousandths
CosineSimilarity(a, b) ==
    LET d == IF a >= b THEN a - b ELSE b - a
    IN  CASE d = 0 -> 1000
          [] d = 60 -> 500
          [] d = 120 -> 0 - 500
          [] d = 180 -> 0 - 1000

\* the i-th page of a page list handed to extract_topics
DocUrl(i) == IF i = 1 THEN SeedUrl
             ELSE SeedUrl \o <<Slash, <<"1", "2", "3", "4", "5", "6", "7", "8">>[i]>>

DocPages(n) ==
    [i \in 1..n |-> [url |-> DocUrl(i), title |-> 1, meta_description |-> 0,
                     body_text |-> 46, full_text |-> FullTextLen(1, 0, 46)]]

\* [i for i, t in enumerate(topics) if t == topic_id]
Members(tps, topic_id) == {i \in DOMAIN tps : tps[i] = topic_id}

\* Counter(topics): every id that occurs, with its number of pages
TopicDistribution(tps) ==
    [t \in {tps[i] : i \in DOMAIN tps} |-> Cardinality(Members(tps, t))]

\* topic_info['Topic'].values: the ids BERTopic reports, in increasing order
TopicInfo(tps) == SortedSeq({tps[i] : i \in DOMAIN tps})

\* the loop without its "if topic_id == -1: continue"
RECURSIVE TopicResults_KeepsOutliers(_, _, _)
TopicResults_KeepsOutliers(info, tps, pages) ==
    IF info = <<>> THEN <<>>
    ELSE LET topic_id == Head(info)
             docs     == SortedSeq(Members(tps, topic_id))
             rest     == TopicResults_KeepsOutliers(Tail(info), tps, pages)
         IN  IF docs = <<>> THEN rest
             ELSE <<[topic_id       |-> topic_id,
                     document_count |-> Len(docs),
                     sample_urls    |->
                        [k \in 1..(IF Len(docs) < 3 THEN Len(docs) ELSE 3) |->
                            pages[docs[k]].url]]>> \o rest

\* the for loop over topic_info that builds topic_results
RECURSIVE TopicResults(_, _, _)
TopicResults(info, tps, pages) ==
    IF info = <<>> THEN <<>>
    ELSE LET topic_id == Head(info)
             docs     == SortedSeq(Members(tps, topic_id))
             rest     == TopicResults(Tail(info), tps, pages)
         IN  IF topic_id = OutlierId \/ docs = <<>> THEN rest
             ELSE <<[topic_id       |-> topic_id,
                     document_count |-> Len(docs),
                     sample_urls    |->
                        [k \in 1..(IF Len(docs) < 3 THEN Len(docs) ELSE 3) |->
                            pages[docs[k]].url]]>> \o rest

\* the counts from which topic_probs is built: topic_distribution.values()
DistributionCounts(tps) ==
    LET dist == TopicDistribution(tps)
        ids  == SortedSeq(DOMAIN dist)
    IN  [k \in DOMAIN ids |-> dist[ids[k]]]

\* total_docs = len([t for t in topics if t != -1])
TotalDocs(tps) == Cardinality({i \in DOMAIN tps : tps[i] /= OutlierId})

\* topical_consistency, in thousandths:
\*   topic_probs = [count / total_docs for count in counts]
\*   entropy = -sum(p * log(p)); max_entropy = log(len(topic_probs)) or 1
\*   1 - entropy / max_entropy
\* total_docs * entropy = sum(count * (log(total_docs) - log(count)))
TopicalConsistency(tps) ==
    LET total_docs == TotalDocs(tps)
        counts     == DistributionCounts(tps)
        weighted   == [k \in DOMAIN counts |->
                          counts[k] * (Ln(total_docs) - Ln(counts[k]))]
        max_entropy == IF Len(counts) > 1 THEN Ln(Len(counts)) ELSE 100000
    IN  IF total_docs > 0
        THEN 1000 - RoundDiv(SumSeq(weighted) * 1000, total_docs * max_entropy)
        ELSE 0

\* the upper triangle of the similarity matrix of one topic's embeddings
TopicPairs(tps, topic_id) ==
    {p \in Members(tps, topic_id) \X Members(tps, topic_id) : p[1] < p[2]}

RECURSIVE SumPairs(_, _)
SumPairs(pairs, emb) ==
    IF pairs = {} THEN 0
    ELSE LET p == CHOOSE q \in pairs : TRUE
         IN  CosineSimilarity(emb[p[1]], emb[p[2]]) + SumPairs(pairs \ {p}, emb)

\* the loop over set(topics) without its skip of the outlier id
SemanticRelevance_WithOutliers(emb, tps) ==
    LET ids   == {tps[i] : i \in DOMAIN tps}
        pairs == UNION {TopicPairs(tps, t) : t \in ids}
    IN  IF pairs = {} THEN 0
        ELSE RoundDiv(SumPairs(pairs, emb), Cardinality(pairs))

\* _calculate_semantic_relevance, in thousandths
SemanticRelevance(emb, tps) ==
    LET ids   == {tps[i] : i \in DOMAIN tps} \ {OutlierId}
        pairs == UNION {TopicPairs(tps, t) : t \in ids}
    IN  IF pairs = {} THEN 0
        ELSE RoundDiv(SumPairs(pairs, emb), Cardinality(pairs))

\* n_neighbors=min(15, len(texts) - 1)
NNeighbors(n) == IF n - 1 < 15 THEN n - 1 ELSE 15

\* if not pages_data
NoPages(pages) == pages = <<>>

\* the dictionary returned at the end of extract_topics
TopicReturn(pages, emb, tps) ==
    [topics              |-> TopicResults(TopicInfo(tps), tps, pages),
     total_documents     |-> Len(pages),
     total_topics        |-> Len(TopicResults(TopicInfo(tps), tps, pages)),
     outliers            |-> Cardinality(Members(tps, OutlierId)),
     topical_consistency |-> TopicalConsistency(tps),
     semantic_relevance  |-> SemanticRelevance(emb, tps),
     embeddings          |-> emb,
     topic_assignments   |-> tps]

\* a crawl that returned n page records
CrawlReturned(n) ==
    /\ url = SeedUrl
    /\ max_pages = MaxDocs
    /\ visited = {DocUrl(i) : i \in 1..n}
    /\ to_visit = <<>>
    /\ pages_data = DocPages(n)
    /\ crawl_pc = "returned"
    /\ requests = [i \in 1..n |-> DocUrl(i)]
    /\ last_fetch = [kind |-> "return"]

TopicsInit ==
    /\ \E n \in 0..MaxDocs : CrawlReturned(n)
    /\ topics_pc = "start"
    /\ reducer_calls = <<>>
    /\ clusterer_calls = 0
    /\ embeddings = <<>>
    /\ topics = <<>>
    /\ topic_data = [pending |-> TRUE]
    /\ ScoreIdle
    /\ MainIdle
    /\ StoreIdle
    /\ RunsIdle
    /\ AnalyzersIdle

\* if not pages_data: return {'error': 'No pages to analyze'}
ExtractTopicsNoPages ==
    /\ topics_pc = "start"
    /\ NoPages(pages_data)
    /\ topic_data' = [error |-> "No pages to analyze"]
    /\ topics_pc' = "returned"
    /\ UNCHANGED <<reducer_calls, clusterer_calls, embeddings, topics>>
    /\ UNCHANGED <<crawlVars, scoreVars, mainVars, storeVars, runVars, analyzerVars>>

\* encode, configure UMAP and HDBSCAN, then topic_model.fit_transform, which
\* fits the reducer and then the clusterer and returns one id per page
ExtractTopicsFit ==
    /\ topics_pc = "start"
    /\ ~NoPages(pages_data)
    /\ \E emb \in [DOMAIN pages_data -> EmbeddingAngles],
          tps \in [DOMAIN pages_data -> TopicIds] :
          /\ embeddings' = emb
          /\ topics' = tps
    /\ reducer_calls' = Append(reducer_calls, NNeighbors(Len(pages_data)))
    /\ clusterer_calls' = clusterer_calls + 1
    /\ topics_pc' = "fitted"
    /\ UNCHANGED topic_data
    /\ UNCHANGED <<crawlVars, scoreVars, mainVars, storeVars, runVars, analyzerVars>>

\* fit_transform raises (in the reducer, or later in the clusterer): nothing
\* in extract_topics catches it
ExtractTopicsFitRaises ==
    /\ topics_pc = "start"
    /\ ~NoPages(pages_data)
    /\ \E emb \in [DOMAIN pages_data -> EmbeddingAngles] : embeddings' = emb
    /\ reducer_calls' = Append(reducer_calls, NNeighbors(Len(pages_data)))
    /\ \E reached \in {0, 1} : clusterer_calls' = clusterer_calls + reached
    /\ topics_pc' = "raised"
    /\ UNCHANGED <<topics, topic_data>>
    /\ UNCHANGED <<crawlVars, scoreVars, mainVars, storeVars, runVars, analyzerVars>>

\* topic summaries, consistency, relevance, and the returned dictionary
ExtractTopicsReturn ==
    /\ topics_pc = "fitted"
    /\ topic_data' = TopicReturn(pages_data, embeddings, topics)
    /\ topics_pc' = "returned"
    /\ UNCHANGED <<reducer_calls, clusterer_calls, embeddings, topics>>
    /\ UNCHANGED <<crawlVars, scoreVars, mainVars, storeVars, runVars, analyzerVars>>

TopicsNext ==
    \/ ExtractTopicsNoPages
    \/ ExtractTopicsFit
    \/ ExtractTopicsFitRaises
    \/ ExtractTopicsReturn

SpecTopics == TopicsInit /\ [][TopicsNext]_vars

-----------------------------------------------------------------------------
(* calculate_topical_authority_score *)
(* Dictionaries are functions on their keys; {} is the empty function.     *)
(* A value that may be None is <<>> (None) or <<v>>.  Scores are in units  *)
(* of 1e-4 point inside the function and in hundredths of a point in the   *)
(* returned dictionary (round(x, 2)); semantic_relevance and               *)
(* topical_consistency arrive in thousandths; domain_age_years in          *)
(* hundredths of a year.                                                   *)

None == <<>>
Some(v) == <<v>>
Val(x) == x[1]

EmptyDict == <<>>

\* d.get(k, default)
Get(d, k, default) == IF k \in DOMAIN d THEN d[k] ELSE default

Min(a, b) == IF a <= b THEN a ELSE b
Max(a, b) == IF a >= b THEN a ELSE b

\* np.log1p(n) in units of 1e-5
Log1p(n) ==
    CASE n = 150 -> 501728
      [] n = 22026 -> 1000002
      [] OTHER -> Ln(n + 1)

\* round(x, 2): from units of 1e-4 to hundredths
Round2(x) == RoundDiv(x, 100)

\* topic_data.get('semantic_relevance', 0) * 100
SemanticRelevancePoints(td) == Get(td, "semantic_relevance", 0) * 1000

\* topic_data.get('topical_consistency', 0) * 100
TopicalConsistencyPoints(td) == Get(td, "topical_consistency", 0) * 1000

\* moz = domain_metrics.get('moz', {})
MozOf(dm) == Get(dm, "moz", EmptyDict)

\* a status test that takes every record with a status for a success
MozSucceeded_AnyStatus(moz) == "status" \in DOMAIN moz

MozSucceeded(moz) == Get(moz, "status", "") = "success"

\* the arithmetic of lines 519-523 raises TypeError on a None operand
BacklinkRaises(moz) ==
    /\ MozSucceeded(moz)
    /\ \/ Get(moz, "domain_authority", Some(0)) = None
       \/ Get(moz, "spam_score", Some(0)) = None
       \/ Get(moz, "root_domains_linking", Some(0)) = None

\* backlink_quality when Moz data is unavailable
DefaultBacklinkQuality == 500000

\* the spam penalty with its sign lost: spam * 2 instead of 100 - spam * 2
BacklinkQuality_SpamRewarded(moz) ==
    IF MozSucceeded(moz)
    THEN LET da              == Val(Get(moz, "domain_authority", Some(0)))
             spam            == Val(Get(moz, "spam_score", Some(0)))
             root_domains    == Val(Get(moz, "root_domains_linking", Some(0)))
             da_normalized   == Min(da, 100) * 10000
             spam_penalty    == Max(0, spam * 2) * 10000
             backlink_score  == Min(Log1p(root_domains), 1000000)
         IN  (da_normalized * 5 + spam_penalty * 2 + backlink_score * 3) \div 10
    ELSE DefaultBacklinkQuality

\* backlink_quality, lines 513-525
BacklinkQuality(moz) ==
    IF MozSucceeded(moz)
    THEN LET da              == Val(Get(moz, "domain_authority", Some(0)))
             spam            == Val(Get(moz, "spam_score", Some(0)))
             root_domains    == Val(Get(moz, "root_domains_linking", Some(0)))
             da_normalized   == Min(da, 100) * 10000
             spam_penalty    == Max(0, 100 - (spam * 2)) * 10000
             backlink_score  == Min(Log1p(root_domains), 1000000)
         IN  (da_normalized * 5 + spam_penalty * 2 + backlink_score * 3) \div 10
    ELSE DefaultBacklinkQuality

\* age_bonus = min(domain_age_years * 2, 10) if domain_age_years else 0
AgeBonus(dm) ==
    LET whois            == Get(dm, "whois", EmptyDict)
        domain_age_years == Get(whois, "domain_age_years", Some(0))
    IN  IF domain_age_years = None \/ Val(domain_age_years) = 0 THEN 0
        ELSE Min(Val(domain_age_years) * 200, 100000)

\* base_score = (semantic_relevance + topical_consistency + backlink_quality) / 3
BaseScore(td, dm) ==
    (SemanticRelevancePoints(td) + TopicalConsistencyPoints(td)
        + BacklinkQuality(MozOf(dm))) \div 3

\* the final score clamped at 0 as well as at 100
FinalScore_ClampedBelow(td, dm) ==
    Max(0, Min(BaseScore(td, dm) + AgeBonus(dm), 1000000))

\* final_score = min(base_score + age_bonus, 100)
FinalScore(td, dm) == Min(BaseScore(td, dm) + AgeBonus(dm), 1000000)

\* the if/elif chain of lines 537-548
Grade(final_score) ==
    IF final_score >= 900000 THEN "A+"
    ELSE IF final_score >= 800000 THEN "A"
    ELSE IF final_score >= 700000 THEN "B"
    ELSE IF final_score >= 600000 THEN "C"
    ELSE IF final_score >= 500000 THEN "D"
    ELSE "F"

\* _interpret_score: the six fixed strings, named by their first word
InterpretScore(score) ==
    IF score >= 900000 THEN "Exceptional"
    ELSE IF score >= 800000 THEN "Strong"
    ELSE IF score >= 700000 THEN "Good"
    ELSE IF score >= 600000 THEN "Moderate"
    ELSE IF score >= 500000 THEN "Fair"
    ELSE "Weak"

\* the dictionary built at lines 550-560
ScoreResult(td, dm) ==
    [topical_authority_score |-> Round2(FinalScore(td, dm)),
     grade                   |-> Grade(FinalScore(td, dm)),
     components              |->
        [semantic_relevance  |-> Round2(SemanticRelevancePoints(td)),
         topical_consistency |-> Round2(TopicalConsistencyPoints(td)),
         backlink_quality    |-> Round2(BacklinkQuality(MozOf(dm))),
         domain_age_bonus    |-> Round2(AgeBonus(dm))],
     interpretation          |-> InterpretScore(FinalScore(td, dm))]

\* the topic results handed to the scorer
SemanticRelevanceInputs  == {0 - 500, 0, 800, 887, 900, 1000}
TopicalConsistencyInputs == {0, 800, 900, 1000}

TopicDataInputs ==
    {[error |-> "No pages to analyze"]}
    \cup {[semantic_relevance |-> sr, topical_consistency |-> tc] :
            sr \in SemanticRelevanceInputs, tc \in TopicalConsistencyInputs}

\* the 'moz' entries analyze_domain can build: {} without credentials, the
\* error record, and the success record of _get_moz_metrics
MozInputs ==
    {EmptyDict, [status |-> "error", message |-> "API returned status 401"],
     [status |-> "error", message |-> "timeout", domain_authority |-> None]}
    \cup {[status |-> "success", domain_authority |-> da, spam_score |-> spam,
           root_domains_linking |-> rd] :
            da   \in {None, Some(0), Some(60), Some(100)},
            spam \in {None, Some(0), Some(10), Some(60)},
            rd   \in {None, Some(0), Some(150), Some(22026)}}

\* the 'whois' entries analyze_domain can build
WhoisInputs ==
    {[error |-> "lookup failed"]}
    \cup {[domain_age_years |-> age] :
            age \in {None, Some(4), Some(50), Some(500), Some(0 - 500)}}

\* with and without the 'moz' entry
DomainMetricsInputs ==
    {[moz |-> moz, whois |-> whois] : moz \in MozInputs, whois \in WhoisInputs}
    \cup {[whois |-> whois] : whois \in WhoisInputs}

ScoreInit ==
    /\ CrawlReturned(2)
    /\ topics_pc = "returned"
    /\ reducer_calls = <<1>>
    /\ clusterer_calls = 1
    /\ embeddings = <<>>
    /\ topics = <<>>
    /\ topic_data \in TopicDataInputs
    /\ domain_metrics \in DomainMetricsInputs
    /\ authority_score = [pending |-> TRUE]
    /\ score_pc = "start"
    /\ MainIdle
    /\ StoreIdle
    /\ RunsIdle
    /\ AnalyzersIdle

\* the call returns the score dictionary
ScoreReturns ==
    /\ score_pc = "start"
    /\ ~BacklinkRaises(MozOf(domain_metrics))
    /\ authority_score' = ScoreResult(topic_data, domain_metrics)
    /\ score_pc' = "returned"
    /\ UNCHANGED <<crawlVars, topicVars, domain_metrics>>
    /\ UNCHANGED <<mainVars, storeVars, runVars, analyzerVars>>

\* the call raises TypeError
ScoreRaises ==
    /\ score_pc = "start"
    /\ BacklinkRaises(MozOf(domain_metrics))
    /\ score_pc' = "raised"
    /\ UNCHANGED <<crawlVars, topicVars, domain_metrics, authority_score>>
    /\ UNCHANGED <<mainVars, storeVars, runVars, analyzerVars>>

ScoreNext ==
    \/ ScoreReturns
    \/ ScoreRaises

SpecScore == ScoreInit /\ [][ScoreNext]_vars

-----------------------------------------------------------------------------
(* analyze_domain and _get_moz_metrics *)

\* what a credential can be: not set, or set
CredentialValues == {"", "set"}

\* the keys of a Moz result that the scorer's inputs are read from
MozResultKeys ==
    {"domain_authority", "spam_score", "root_domains_to_root_domain"}

\* what the provider can report for a key that it returns: null or a number
MozResultValues(k) ==
    CASE k = "domain_authority" -> {None, Some(0), Some(60)}
      [] k = "spam_score" -> {None, Some(10)}
      [] OTHER -> {None, Some(150)}

\* data['results'][0]: each key may be missing
MozResults ==
    UNION {{result \in [ks -> {None, Some(0), Some(10), Some(60), Some(150)}] :
                \A k \in ks : result[k] \in MozResultValues(k)} :
           ks \in SUBSET MozResultKeys}

\* what requests.post to the Moz API comes back with: an exception (timeout,
\* connection error), or a response with a status code and a results list
MozResponses ==
    {[kind |-> "raised"]}
    \cup {[kind |-> "http", status_code |-> code, results |-> <<>>] :
            code \in {200, 401, 429}}
    \cup {[kind |-> "http", status_code |-> 200, results |-> <<result>>] :
            result \in MozResults}

\* _get_moz_metrics, given what the request came back with
GetMozMetrics(response) ==
    IF response.kind = "raised"
    THEN [status |-> "error", message |-> <<"exception">>]
    ELSE IF response.status_code = 200 /\ Len(response.results) > 0
    THEN LET result == response.results[1]
         IN  [domain_authority     |-> Get(result, "domain_authority", Some(0)),
              page_authority       |-> Get(result, "page_authority", Some(0)),
              spam_score           |-> Get(result, "spam_score", Some(0)),
              root_domains_linking |->
                  Get(result, "root_domains_to_root_domain", Some(0)),
              external_links       |->
                  Get(result, "external_links_to_root_domain", Some(0)),
              pages_to_root        |-> Get(result, "pages_to_root_domain", Some(0)),
              status               |-> "success"]
    ELSE [status   |-> "error",
          message  |-> <<"API returned status", response.status_code>>,
          response |-> response.status_code]

\* if self.moz_access_id and self.moz_secret_key
MozConfigured(access_id, secret_key) == access_id /= "" /\ secret_key /= ""

\* (datetime.now() - creation_date).days for the creation dates WHOIS reports
WhoisAgeDays == {0, 15, 1826, 0 - 1826}

\* whois.whois(domain): an exception, or a record with or without a creation
\* date (given here by its age in days)
WhoisResponses ==
    {[kind |-> "raised"], [kind |-> "record", creation_date |-> None]}
    \cup {[kind |-> "record", creation_date |-> Some(days)] :
            days \in WhoisAgeDays}

\* round(domain_age_days / 365.25, 2) if domain_age_years else None, in
\* hundredths of a year
DomainAgeYears(days) ==
    IF days = 0 THEN None ELSE Some(RoundDiv(days * 10000, 36525))

\* the 'whois' entry of the metrics
WhoisMetrics(w) ==
    IF w.kind = "raised" THEN [error |-> "exception"]
    ELSE IF w.creation_date = None
    THEN [domain_age_days |-> None, domain_age_years |-> None]
    ELSE [domain_age_days  |-> w.creation_date,
          domain_age_years |-> DomainAgeYears(Val(w.creation_date))]

\* the dictionary analyze_domain returns
AnalyzeDomain(domain, access_id, secret_key, response, w) ==
    [domain |-> domain,
     moz    |-> IF MozConfigured(access_id, secret_key)
                THEN GetMozMetrics(response) ELSE EmptyDict,
     whois  |-> WhoisMetrics(w)]

-----------------------------------------------------------------------------
(* generate_report *)

\* the dictionary written to topics.json (without its analysis date)
TopicsOutput(u, pages, td) ==
    [url                  |-> u,
     total_pages_analyzed |-> Len(pages),
     topics               |-> Get(td, "topics", <<>>),
     metrics              |->
        [total_topics        |-> Get(td, "total_topics", 0),
         outliers            |-> Get(td, "outliers", 0),
         topical_consistency |-> Get(td, "topical_consistency", 0),
         semantic_relevance  |-> Get(td, "semantic_relevance", 0)]]

\* open(name, 'w') and write: the file holds the new content only
WriteFile(files, name, content) == (name :> content) @@ files

WriteTopicsJson(files, u, pages, td) ==
    WriteFile(files, "topics.json", TopicsOutput(u, pages, td))

WriteDomainMetricsJson(files, dm) ==
    WriteFile(files, "domain_metrics.json", dm)

\* _create_visualizations: the topic chart is drawn only when there are
\* topics, the breakdown chart only when there are components
CreateVisualizations(files, td, score) ==
    LET tps    == Get(td, "topics", <<>>)
        first  == IF tps /= <<>>
                  THEN WriteFile(files, "topic_distribution.png",
                                 [i \in DOMAIN tps |-> tps[i].document_count])
                  ELSE files
    IN  IF Get(score, "components", EmptyDict) /= EmptyDict
        THEN WriteFile(first, "authority_breakdown.png",
                       [components |-> score.components,
                        overall    |-> score.topical_authority_score,
                        grade      |-> score.grade])
        ELSE first

\* _generate_html_report
GenerateHtmlReport(files, u, pages, td, dm, score) ==
    WriteFile(files, "report.html",
              [url |-> u, pages |-> Len(pages),
               topics |-> Get(td, "topics", <<>>),
               moz |-> Get(dm, "moz", EmptyDict),
               whois |-> Get(dm, "whois", EmptyDict),
               score |-> score])

\* generate_report: the four steps in order
GenerateReport(files, u, pages, td, dm, score) ==
    GenerateHtmlReport(
        CreateVisualizations(
            WriteDomainMetricsJson(WriteTopicsJson(files, u, pages, td), dm),
            td, score),
        u, pages, td, dm, score)

-----------------------------------------------------------------------------
(* main: crawl, extract_topics, analyze_domain, score, generate_report *)

MaxPipelinePages == 2   \* the crawl of a pipeline run returns 0..MaxPipelinePages pages

PipelineInit ==
    /\ \E n \in 0..MaxPipelinePages : CrawlReturned(n)
    /\ TopicsIdle
    /\ ScoreIdle
    /\ main_pc = "crawled"
    /\ moz_access_id \in CredentialValues
    /\ moz_secret_key \in CredentialValues
    /\ moz_requests = 0
    /\ moz_response = [kind |-> "none"]
    /\ StoreIdle
    /\ RunsIdle
    /\ AnalyzersIdle

\* if not pages_data: return
MainNoPages ==
    /\ main_pc = "crawled"
    /\ NoPages(pages_data)
    /\ main_pc' = "no_pages"
    /\ UNCHANGED <<moz_access_id, moz_secret_key, moz_requests, moz_response>>
    /\ UNCHANGED <<crawlVars, topicVars, scoreVars, storeVars, runVars, analyzerVars>>

\* topic_data = analyzer.extract_topics(pages_data): the call
MainExtractTopics ==
    /\ main_pc = "crawled"
    /\ ~NoPages(pages_data)
    /\ topics_pc' = "start"
    /\ main_pc' = "topics_called"
    /\ UNCHANGED <<reducer_calls, clusterer_calls, embeddings, topics,
                   topic_data>>
    /\ UNCHANGED <<moz_access_id, moz_secret_key, moz_requests, moz_response>>
    /\ UNCHANGED <<crawlVars, scoreVars, storeVars, runVars, analyzerVars>>

\* domain_metrics = analyzer.analyze_domain(urlparse(url).netloc)
MainAnalyzeDomain ==
    /\ main_pc = "topics_called"
    /\ topics_pc = "returned"
    /\ \E response \in MozResponses, w \in WhoisResponses :
          /\ domain_metrics' = AnalyzeDomain(Netloc(url), moz_access_id,
                                             moz_secret_key, response, w)
          /\ IF MozConfigured(moz_access_id, moz_secret_key)
             THEN /\ moz_requests' = moz_requests + 1
                  /\ moz_response' = response
             ELSE UNCHANGED <<moz_requests, moz_response>>
    /\ main_pc' = "domain_analyzed"
    /\ UNCHANGED <<authority_score, score_pc, moz_access_id, moz_secret_key>>
    /\ UNCHANGED <<crawlVars, topicVars, storeVars, runVars, analyzerVars>>

\* authority_score = analyzer.calculate_topical_authority_score(...): the call
MainScore ==
    /\ main_pc = "domain_analyzed"
    /\ score_pc' = "start"
    /\ main_pc' = "score_called"
    /\ UNCHANGED <<domain_metrics, authority_score>>
    /\ UNCHANGED <<moz_access_id, moz_secret_key, moz_requests, moz_response>>
    /\ UNCHANGED <<crawlVars, topicVars, storeVars, runVars, analyzerVars>>

\* analyzer.generate_report(...) and the printed summary
MainReport ==
    /\ main_pc = "score_called"
    /\ score_pc = "returned"
    /\ cwd_files' = GenerateReport(cwd_files, url, pages_data, topic_data,
                                   domain_metrics, authority_score)
    /\ main_pc' = "done"
    /\ UNCHANGED <<moz_access_id, moz_secret_key, moz_requests, moz_response>>
    /\ UNCHANGED <<crawlVars, topicVars, scoreVars, storeVars, runs, analyzerVars>>

\* except Exception as e: print the error; main returns without a score
MainCatch ==
    /\ \/ main_pc = "topics_called" /\ topics_pc = "raised"
       \/ main_pc = "score_called" /\ score_pc = "raised"
    /\ main_pc' = "failed"
    /\ UNCHANGED <<moz_access_id, moz_secret_key, moz_requests, moz_response>>
    /\ UNCHANGED <<crawlVars, topicVars, scoreVars, storeVars, runVars, analyzerVars>>

PipelineNext ==
    \/ MainNoPages
    \/ MainExtractTopics
    \/ ExtractTopicsFit
    \/ ExtractTopicsFitRaises
    \/ ExtractTopicsReturn
    \/ MainAnalyzeDomain
    \/ MainScore
    \/ ScoreReturns
    \/ ScoreRaises
    \/ MainReport
    \/ MainCatch

SpecPipeline == PipelineInit /\ [][PipelineNext]_vars

-----------------------------------------------------------------------------
(* services/storage.py: save_report *)

MaxClock == 2    \* time.time() * 1000 takes the values 0..MaxClock
MaxSaves == 2    \* save_report is called at most MaxSaves times

\* the reports handed to save_report
Reports == {"report_a", "report_b"}

DecimalDigits == <<"0", "1", "2", "3", "4", "5", "6", "7", "8", "9">>

\* str(n) for n >= 0
RECURSIVE Str(_)
Str(n) ==
    IF n < 10 THEN <<DecimalDigits[n + 1]>>
    ELSE Str(n \div 10) \o <<DecimalDigits[(n % 10) + 1]>>

\* report_id = str(int(time.time() * 1000))
ReportId(now) == Str(now)

\* f"report-{report_id}.json"
ReportFileName(report_id) ==
    <<"r", "e", "p", "o", "r", "t", "-">> \o report_id
        \o <<".", "j", "s", "o", "n">>

\* if SUPABASE_URL and SUPABASE_SERVICE_KEY
SupabaseConfigured(supabase, key) == supabase /= "" /\ key /= ""

\* how requests.post + raise_for_status can end: a 2xx answer for a stored
\* row; a 4xx/5xx answer; no answer and no row (connection error, timeout);
\* no answer within 20 s for a row that the server did store
PostOutcomes == {"created", "rejected", "no_answer", "timeout_stored"}

\* the table's id column is its primary key: a second row with an id that is
\* already there is not stored
PostPossible(rows, report_id, outcome) ==
    outcome \in {"created", "timeout_stored"}
        => \A row \in rows : row.id /= report_id

RowStored(outcome) == outcome \in {"created", "timeout_stored"}

\* the fallback is skipped by the return inside the try block only
FallsBack_OnlyUnconfigured(configured, outcome) == ~configured

\* the code after the if block runs unless the try block returned
FallsBack(configured, outcome) == ~configured \/ outcome /= "created"

StoreInit ==
    /\ CrawlReturned(0)
    /\ TopicsIdle
    /\ ScoreIdle
    /\ MainIdle
    /\ RunsIdle
    /\ AnalyzersIdle
    /\ clock = 0
    /\ supabase_url \in CredentialValues
    /\ supabase_service_key \in CredentialValues
    /\ seo_reports = {}
    /\ data_files = <<>>
    /\ save_log = <<>>

\* one call of save_report, from the id to the return
SaveReport ==
    /\ Len(save_log) < MaxSaves
    /\ \E report \in Reports, outcome \in PostOutcomes :
          LET report_id  == ReportId(clock)
              configured == SupabaseConfigured(supabase_url,
                                               supabase_service_key)
              stored     == configured /\ RowStored(outcome)
              fallback   == FallsBack(configured, outcome)
          IN  /\ configured => PostPossible(seo_reports, report_id, outcome)
              /\ seo_reports' =
                    IF stored
                    THEN seo_reports \cup {[id |-> report_id, payload |-> report]}
                    ELSE seo_reports
              /\ data_files' =
                    IF fallback
                    THEN WriteFile(data_files, ReportFileName(report_id), report)
                    ELSE data_files
              /\ save_log' = Append(save_log,
                    [report       |-> report,
                     now          |-> clock,
                     configured   |-> configured,
                     outcome      |-> IF configured THEN outcome ELSE "not_sent",
                     row_stored   |-> stored,
                     file_written |-> fallback,
                     returned     |-> report_id])
    /\ UNCHANGED <<clock, supabase_url, supabase_service_key>>
    /\ UNCHANGED <<crawlVars, topicVars, scoreVars, mainVars, runVars, analyzerVars>>

\* a millisecond passes
Tick ==
    /\ clock < MaxClock
    /\ clock' = clock + 1
    /\ UNCHANGED <<supabase_url, supabase_service_key, seo_reports, data_files,
                   save_log>>
    /\ UNCHANGED <<crawlVars, topicVars, scoreVars, mainVars, runVars, analyzerVars>>

StoreNext ==
    \/ SaveReport
    \/ Tick

SpecStore == StoreInit /\ [][StoreNext]_vars

-----------------------------------------------------------------------------
(* two runs of main for different seed URLs in one working directory *)

RunIds == {1, 2}

RunSeed(r) == IF r = 1 THEN SeedUrl ELSE OtherHost

\* the pages the crawl of a seed returns
RunPages(seed) ==
    <<[url |-> seed, title |-> 1, meta_description |-> 0, body_text |-> 46,
       full_text |-> FullTextLen(1, 0, 46)],
      [url |-> seed \o <<Slash, "1">>, title |-> 1, meta_description |-> 0,
       body_text |-> 46, full_text |-> FullTextLen(1, 0, 46)]>>

\* the topic assignments fit_transform gives the two pages of a run
RunTopicAssignments == {<<0, 0>>, <<OutlierId, OutlierId>>}

RunsInit ==
    /\ CrawlReturned(0)
    /\ TopicsIdle
    /\ ScoreIdle
    /\ MainIdle
    /\ StoreIdle
    /\ AnalyzersIdle
    /\ runs = [r \in RunIds |->
                 [pc |-> "start", url |-> RunSeed(r), pages_data |-> <<>>,
                  topic_data |-> EmptyDict, domain_metrics |-> EmptyDict,
                  authority_score |-> EmptyDict]]
    /\ cwd_files = <<>>

\* a step of run r that changes only the run's own variables
RunLocalStep(r, from, to, field, value) ==
    /\ runs[r].pc = from
    /\ runs' = [runs EXCEPT ![r] = [runs[r] EXCEPT !.pc = to, ![field] = value]]
    /\ UNCHANGED cwd_files
    /\ UNCHANGED <<crawlVars, topicVars, scoreVars, mainVars, storeVars, analyzerVars>>

\* a step of run r that writes files of the working directory
RunFileStep(r, from, to, files) ==
    /\ runs[r].pc = from
    /\ runs' = [runs EXCEPT ![r].pc = to]
    /\ cwd_files' = files
    /\ UNCHANGED <<crawlVars, topicVars, scoreVars, mainVars, storeVars, analyzerVars>>

RunCrawl(r) ==
    RunLocalStep(r, "start", "crawled", "pages_data", RunPages(runs[r].url))

RunExtractTopics(r) ==
    \E tps \in RunTopicAssignments :
        RunLocalStep(r, "crawled", "topics", "topic_data",
                     TopicReturn(runs[r].pages_data, <<0, 0>>, tps))

RunAnalyzeDomain(r) ==
    \E w \in WhoisResponses :
        RunLocalStep(r, "topics", "domain", "domain_metrics",
                     AnalyzeDomain(Netloc(runs[r].url), "", "",
                                   [kind |-> "none"], w))

RunScore(r) ==
    RunLocalStep(r, "domain", "scored", "authority_score",
                 ScoreResult(runs[r].topic_data, runs[r].domain_metrics))

RunWriteTopicsJson(r) ==
    RunFileStep(r, "scored", "topics_json",
                WriteTopicsJson(cwd_files, runs[r].url, runs[r].pages_data,
                                runs[r].topic_data))

RunWriteDomainMetricsJson(r) ==
    RunFileStep(r, "topics_json", "metrics_json",
                WriteDomainMetricsJson(cwd_files, runs[r].domain_metrics))

RunCreateVisualizations(r) ==
    RunFileStep(r, "metrics_json", "charts",
                CreateVisualizations(cwd_files, runs[r].topic_data,
                                     runs[r].authority_score))

RunGenerateHtmlReport(r) ==
    RunFileStep(r, "charts", "done",
                GenerateHtmlReport(cwd_files, runs[r].url, runs[r].pages_data,
                                   runs[r].topic_data, runs[r].domain_metrics,
                                   runs[r].authority_score))

RunsNext ==
    \E r \in RunIds :
        \/ RunCrawl(r)
        \/ RunExtractTopics(r)
        \/ RunAnalyzeDomain(r)
        \/ RunScore(r)
        \/ RunWriteTopicsJson(r)
        \/ RunWriteDomainMetricsJson(r)
        \/ RunCreateVisualizations(r)
        \/ RunGenerateHtmlReport(r)

SpecRuns == RunsInit /\ [][RunsNext]_vars

-----------------------------------------------------------------------------
(* analyzers/keywords.py: analyze_seo_keywords *)
(* A text, a title and a related search are sequences of words, a URL is   *)
(* its host followed by its path parts; a word is a string.                *)

MaxTextLen == 3
MaxTopN == 2

\* the words a page text is made of
TextWords == {"Umzug", "Nova", "stock", "zu", "lager", "preise"}

\* the members of STOPWORDS among the words of the model
STOPWORDS == {"der", "mehr", "zu", "stock", "angebot", "nova", "transport"}

\* str.lower() on the words of the model
Lower(w) ==
    CASE w = "Umzug" -> "umzug"
      [] w = "Nova" -> "nova"
      [] w = "Stock" -> "stock"
      [] w = "Umzugsfirma" -> "umzugsfirma"
      [] w = "Lagerraum" -> "lagerraum"
      [] OTHER -> w

\* the words of the model that are substrings of the lower-case string w
SubstringsOf(w) ==
    CASE w = "umzug" -> {"umzug", "zu"}
      [] w = "umzugsfirma" -> {"umzugsfirma", "umzug", "zu"}
      [] w = "nova-stock.ch" -> {"nova", "stock"}
      [] w = "lagerraum" -> {"lagerraum", "lager"}
      [] w = "lager-2" -> {"lager"}
      [] OTHER -> {w}

\* re.sub(r"[^a-zäöüß]", "", part) on the lower-case path parts of the model
StripNonLetters(part) ==
    CASE part = "lager-2" -> "lager"
      [] part = "2024" -> ""
      [] OTHER -> part

\* re.findall(r"\b[\wÀ-ſ]+\b", text.lower())
FindWords(text) == [k \in DOMAIN text |-> Lower(text[k])]

\* a filter that only drops the short words
KeepWord_AnyLongWord(w) == Len(w) > 2

\* w not in STOPWORDS and len(w) > 2
KeepWord(w) == w \notin STOPWORDS /\ Len(w) > 2

\* Counter(words)[w]
WordCount(words, w) == Cardinality({k \in DOMAIN words : words[k] = w})

FirstIndexOf(words, w) ==
    CHOOSE k \in DOMAIN words :
        words[k] = w /\ \A earlier \in 1..(k - 1) : words[earlier] /= w

\* the n in word_freq.most_common(n)
MostCommonLimit == 30

\* the words of Counter(words).most_common(n): by falling count, words of
\* equal count in the order of their first occurrence
MostCommon(words, n) ==
    LET keys == {words[k] : k \in DOMAIN words}
        Before(v, w) ==
            \/ WordCount(words, v) > WordCount(words, w)
            \/ /\ WordCount(words, v) = WordCount(words, w)
               /\ FirstIndexOf(words, v) < FirstIndexOf(words, w)
    IN  {w \in keys : Cardinality({v \in keys : Before(v, w)}) < n}

\* the first entries of industry_keywords
IndustryKeywords == <<"umzug", "umzugsfirma", "transport", "spedition">>

\* _extract_topic: the first industry keyword found in the URL or the title,
\* else the first path part of more than three characters, stripped to its
\* letters, unless that is empty or a stop word; else None
ExtractTopic(page_url, title) ==
    LET combined == FindWords(page_url \o title)
        found == {k \in DOMAIN IndustryKeywords :
                     \E c \in DOMAIN combined :
                        IndustryKeywords[k] \in SubstringsOf(combined[c])}
        IsLongPart(part) == Len(part) > 3
        path_parts == SelectSeq(Tail(page_url), IsLongPart)
        candidate == StripNonLetters(Lower(path_parts[1]))
    IN  IF found /= {}
        THEN Some(IndustryKeywords[CHOOSE k \in found : \A o \in found : k <= o])
        ELSE IF path_parts /= <<>> /\ candidate /= "" /\ candidate \notin STOPWORDS
        THEN Some(candidate)
        ELSE None

\* the topic after the fallback to the most frequent word of the text
TopicOf(text, page_url, title) ==
    LET topic == ExtractTopic(page_url, title)
        words == SelectSeq(FindWords(text), KeepWord)
    IN  IF topic /= None THEN topic
        ELSE IF words /= <<>> THEN Some(CHOOSE w \in MostCommon(words, 1) : TRUE)
        ELSE None

\* what the import and the call of analyze_serp_results can give: the
\* import fails; the call raises; it returns nothing, an error, or the
\* analysis, whose related searches are strings (as extract_related_searches
\* builds them) or dictionaries with a query
SerpOutcomes ==
    {[outcome |-> "import_error"],
     [outcome |-> "raised"],
     [outcome |-> "returned", data |-> EmptyDict],
     [outcome |-> "returned", data |-> [error |-> "SERPAPI_API_KEY not set"]],
     [outcome |-> "returned",
      data |-> [related_searches |-> <<[str |-> <<"Umzug", "preise">>]>>,
                people_also_ask  |-> <<[question |-> <<"Lagerraum">>]>>]],
     [outcome |-> "returned",
      data |-> [related_searches |-> <<>>,
                people_also_ask  |-> <<[question |-> <<"Lagerraum", "zu", "Stock">>],
                                       [question |-> <<>>]>>]],
     [outcome |-> "returned",
      data |-> [related_searches |-> <<[query |-> <<"Umzug", "preise">>],
                                       [query |-> <<>>]>>,
                people_also_ask  |-> <<>>]]}

\* related_keywords after the try block
RelatedKeywords(serp) ==
    IF serp.outcome /= "returned" THEN <<>>
    ELSE IF DOMAIN serp.data = {} \/ "error" \in DOMAIN serp.data THEN <<>>
    ELSE LET related == serp.data.related_searches
             paa     == serp.data.people_also_ask
             HasQuery(r) == r.query /= <<>>
             HasQuestion(q) == q.question /= <<>>
             queries   == SelectSeq(related, HasQuery)
             questions == SelectSeq(paa, HasQuestion)
         IN  IF \E k \in DOMAIN related : "query" \notin DOMAIN related[k]
             THEN <<>>
             ELSE [k \in DOMAIN queries |-> queries[k].query]
                  \o [k \in DOMAIN questions |-> FindWords(questions[k].question)]

\* the candidates set
Candidates(words, topic, related_keywords) ==
    {Lower(topic)}
    \cup {w \in UNION {{Lower(related_keywords[k][c]) : c \in DOMAIN related_keywords[k]} :
                          k \in DOMAIN related_keywords} : KeepWord(w)}
    \cup MostCommon(words, MostCommonLimit)

\* count * serp_boost * topic_boost, a whole number
KeywordScore(kw, words, topic, related_keywords) ==
    LET serp_boost ==
            IF \E k \in DOMAIN related_keywords :
                  \E c \in DOMAIN related_keywords[k] :
                     kw \in SubstringsOf(Lower(related_keywords[k][c]))
            THEN 2 ELSE 1
        topic_boost == IF kw = Lower(topic) THEN 3 ELSE 1
    IN  WordCount(words, kw) * serp_boost * topic_boost

\* the entry appended to scored for a candidate; round(score, 2) of a whole
\* number is that number
ScoredEntry(kw, words, topic, related_keywords) ==
    [keyword         |-> kw,
     count_on_page   |-> WordCount(words, kw),
     relevance_score |-> KeywordScore(kw, words, topic, related_keywords),
     search_volume   |-> None]

\* the lists scored can be after the sort: the candidates of positive score
\* in an order of falling score; candidates of equal score are in the order
\* in which the candidates set was iterated
SortedScored(words, topic, related_keywords) ==
    LET entries == {ScoredEntry(kw, words, topic, related_keywords) :
                       kw \in Candidates(words, topic, related_keywords)}
        kept == {e \in entries : e.relevance_score > 0}
    IN  {order \in [1..Cardinality(kept) -> kept] :
            /\ \A a, b \in DOMAIN order : a /= b => order[a] /= order[b]
            /\ \A a, b \in DOMAIN order :
                  a < b => order[a].relevance_score >= order[b].relevance_score}

\* seq[:n] for n >= 0
SliceTo(seq, n) == SubSeq(seq, 1, Min(n, Len(seq)))

KeywordUrls ==
    {<<"nova-stock.ch", "umzug">>, <<"nova-stock.ch", "lager-2">>,
     <<"nova-stock.ch", "Stock">>, <<"nova-stock.ch", "abc", "2024">>}

KeywordTitles == {None, Some(<<"Umzugsfirma", "Nova">>)}

KeywordArgs ==
    [text  : SeqsUpTo(TextWords, MaxTextLen),
     url   : KeywordUrls,
     title : KeywordTitles,
     top_n : 0..MaxTopN]

KeywordsInit ==
    /\ CrawlReturned(0)
    /\ TopicsIdle
    /\ ScoreIdle
    /\ MainIdle
    /\ StoreIdle
    /\ RunsIdle
    /\ kw_args \in KeywordArgs
    /\ serp_data = <<>>
    /\ kw_result = <<>>
    /\ ai_keys = <<>>
    /\ ai_results = <<>>
    /\ ai_return = <<>>

\* one call of analyze_seo_keywords
AnalyzeSeoKeywords ==
    /\ kw_args /= <<>>
    /\ kw_result = <<>>
    /\ \E serp \in SerpOutcomes :
          LET title == IF kw_args.title = None THEN <<>> ELSE Val(kw_args.title)
              topic == TopicOf(kw_args.text, kw_args.url, title)
              words == SelectSeq(FindWords(kw_args.text), KeepWord)
              related_keywords == RelatedKeywords(serp)
          IN  IF serp.outcome = "import_error"
              THEN /\ serp_data' = serp
                   /\ kw_result' = [raised |-> "ImportError"]
              ELSE IF topic = None
              THEN /\ serp_data' = <<>>
                   /\ kw_result' = [detected_topic   |-> None,
                                    seo_keywords     |-> <<>>,
                                    related_searches |-> <<>>,
                                    method           |-> "fallback_failed"]
              ELSE /\ serp_data' = serp
                   /\ \E scored \in SortedScored(words, Val(topic), related_keywords) :
                         kw_result' = [detected_topic   |-> topic,
                                       seo_keywords     |-> SliceTo(scored, kw_args.top_n),
                                       related_searches |-> SliceTo(related_keywords, 10),
                                       method           |-> "serp_enhanced"]
    /\ UNCHANGED <<kw_args, ai_keys, ai_results, ai_return>>
    /\ UNCHANGED <<crawlVars, topicVars, scoreVars, mainVars, storeVars,
                   runVars>>

KeywordsNext == AnalyzeSeoKeywords

SpecKeywords == KeywordsInit /\ [][KeywordsNext]_vars

-----------------------------------------------------------------------------
(* analyzers/ai_insights.py: get_all_ai_insights *)

\* the providers in the order in which get_all_ai_insights tries them
AiProviders == <<"openai", "gemini", "claude">>

\* how the call of one configured provider can end: the generator's
\* constructor raises; the provider's library is not installed; the query
\* raises; the answer cannot be turned into a dictionary; the answer is a
\* JSON object that holds an 'error' key; the answer holds insights
ProviderOutcomes ==
    {"init_raised", "no_client", "query_raised", "parse_failed",
     "error_in_answer", "insights"}

\* what get_<provider>_insights leaves in results[provider]
ProviderResult(provider, outcome) ==
    CASE outcome = "init_raised" -> [error |-> "exception"]
      [] outcome = "no_client" ->
            [error   |-> <<provider, "_API_KEY not configured">>,
             message |-> "Please set the appropriate API key environment variable"]
      [] outcome = "query_raised" ->
            [error   |-> "exception",
             message |-> <<"Failed to generate AI insights using", provider>>]
      [] outcome = "parse_failed" ->
            [error        |-> "Failed to parse AI response",
             raw_response |-> "response",
             provider     |-> provider]
      [] outcome = "error_in_answer" ->
            [error              |-> "answer",
             ai_provider        |-> provider,
             analysis_timestamp |-> None]
      [] outcome = "insights" ->
            [summary            |-> <<"insights of", provider>>,
             ai_provider        |-> provider,
             analysis_timestamp |-> None]

\* the results dictionary, in insertion order: one entry per provider whose
\* key is set, from the k-th provider on
RECURSIVE TriedResults(_, _, _)
TriedResults(keys, outcomes, k) ==
    IF k > Len(AiProviders) THEN <<>>
    ELSE LET provider == AiProviders[k]
             rest     == TriedResults(keys, outcomes, k + 1)
         IN  IF keys[provider] /= ""
             THEN <<[provider |-> provider,
                     outcome  |-> outcomes[provider],
                     result   |-> ProviderResult(provider, outcomes[provider])]>>
                  \o rest
             ELSE rest

\* the entries of results that hold no 'error' key
SuccessfulEntries(results) ==
    {k \in DOMAIN results : "error" \notin DOMAIN results[k].result}

\* the loop that returns the last entry without an error
FirstSuccessful_TakesLast(results) ==
    IF SuccessfulEntries(results) = {} THEN 0
    ELSE CHOOSE k \in SuccessfulEntries(results) :
            \A other \in SuccessfulEntries(results) : k >= other

\* for provider, result in results.items(): if 'error' not in result
FirstSuccessful(results) ==
    IF SuccessfulEntries(results) = {} THEN 0
    ELSE CHOOSE k \in SuccessfulEntries(results) :
            \A other \in SuccessfulEntries(results) : k <= other

\* the value get_all_ai_insights returns for a results dictionary
AllAiInsights(results) ==
    IF results = <<>>
    THEN [error   |-> "No AI provider configured",
          message |-> "Please set at least one of: OPENAI_API_KEY, GEMINI_API_KEY, CLAUDE_API_KEY"]
    ELSE IF FirstSuccessful(results) /= 0
    THEN [primary_provider    |-> results[FirstSuccessful(results)].provider,
          all_providers_tried |-> [k \in DOMAIN results |-> results[k].provider]]
         @@ results[FirstSuccessful(results)].result
    ELSE [error   |-> "All AI providers failed",
          details |-> [k \in DOMAIN results |->
                          <<results[k].provider, results[k].result>>]]

InsightsInit ==
    /\ CrawlReturned(0)
    /\ TopicsIdle
    /\ ScoreIdle
    /\ MainIdle
    /\ StoreIdle
    /\ RunsIdle
    /\ kw_args = <<>>
    /\ serp_data = <<>>
    /\ kw_result = <<>>
    /\ ai_keys \in [{AiProviders[k] : k \in DOMAIN AiProviders} -> CredentialValues]
    /\ ai_results = <<>>
    /\ ai_return = <<>>

\* one call of get_all_ai_insights
GetAllAiInsights ==
    /\ ai_return = <<>>
    /\ \E outcomes \in [DOMAIN ai_keys -> ProviderOutcomes] :
          /\ ai_results' = TriedResults(ai_keys, outcomes, 1)
          /\ ai_return' = AllAiInsights(TriedResults(ai_keys, outcomes, 1))
    /\ UNCHANGED <<kw_args, serp_data, kw_result, ai_keys>>
    /\ UNCHANGED <<crawlVars, topicVars, scoreVars, mainVars, storeVars,
                   runVars>>

InsightsNext == GetAllAiInsights

SpecInsights == InsightsInit /\ [][InsightsNext]_vars

-----------------------------------------------------------------------------
(* Claims about crawl_website *)

SameOrigin(u, v) ==
    /\ Scheme(u) = Scheme(v)
    /\ Netloc(u) = Netloc(v)

\* C1: the list of page records never holds more than max_pages entries, and
\* with max_pages = 1 a record of the seed URL is there only if the seed
\* page's text passed the content threshold.
C1_PageBudget ==
    /\ Len(pages_data) <= max_pages
    /\ max_pages = 1 =>
          \A i \in DOMAIN pages_data :
              pages_data[i].url = url => pages_data[i].full_text > MinContentLen

\* the budget ended a crawl whose frontier still held URLs
C1_Witness ==
    /\ crawl_pc = "returned"
    /\ max_pages >= 1
    /\ Len(pages_data) = max_pages
    /\ to_visit /= <<>>

\* C2 (as claimed): within one call no URL string is requested from the page
\* fetcher more than once, whichever fetches fail.
C2_NoUrlRequestedTwice ==
    \A i, j \in DOMAIN requests : i /= j => requests[i] /= requests[j]

\* C3 (as claimed): every URL on the frontier, every URL fetched and every
\* page record url has the scheme and host of the seed URL.
C3_SameOriginOnly ==
    /\ \A i \in DOMAIN to_visit : SameOrigin(to_visit[i], url)
    /\ \A i \in DOMAIN requests : SameOrigin(requests[i], url)
    /\ \A i \in DOMAIN pages_data : SameOrigin(pages_data[i].url, url)

\* C4: a failed fetch adds no page record, leaves the records collected so
\* far unchanged and hands control to the next frontier URL; the call never
\* raises, and when every fetch failed it returns the empty list.
C4_FetchFailureIsLocal ==
    /\ [][(requests' /= requests /\ last_fetch'.kind = "fail") =>
            /\ pages_data' = pages_data
            /\ to_visit' = Tail(to_visit)
            /\ crawl_pc' = "loop"]_vars
    /\ [](crawl_pc /= "raised")
    /\ []((crawl_pc = "returned" /\ visited = {}) => pages_data = <<>>)

\* a request failed, the crawl went on to fetch other URLs and returned pages
C4_Witness ==
    /\ crawl_pc = "returned"
    /\ pages_data /= <<>>
    /\ \E i \in DOMAIN requests : i < Len(requests) /\ requests[i] \notin visited

-----------------------------------------------------------------------------
(* Claims about extract_topics *)

TopicsReturnedFor(n) ==
    /\ topics_pc = "returned"
    /\ Len(pages_data) = n

DocumentCounts(summaries) ==
    [k \in DOMAIN summaries |-> summaries[k].document_count]

NonOutlierIds(tps) == {tps[i] : i \in DOMAIN tps} \ {OutlierId}

\* C5: for a non-empty page list on which the clusterer returns, every page
\* index has exactly one topic id, and the document counts of the topic
\* summaries plus the outliers count add up to total_documents, the number of
\* pages.
C5_CountsAddUp ==
    (topics_pc = "returned" /\ pages_data /= <<>>) =>
        /\ DOMAIN topic_data.topic_assignments = DOMAIN pages_data
        /\ \A i \in DOMAIN pages_data : topic_data.topic_assignments[i] \in TopicIds
        /\ topic_data.total_documents = Len(pages_data)
        /\ SumSeq(DocumentCounts(topic_data.topics)) + topic_data.outliers
              = topic_data.total_documents

\* two topics and at least one outlier page were summarised
C5_Witness ==
    /\ topics_pc = "returned"
    /\ Len(pages_data) >= 4
    /\ topic_data.total_topics = 2
    /\ topic_data.outliers >= 1

\* C6 (as claimed): topical_consistency lies in [0,1] for every topic
\* assignment of a non-empty page list.
C6_ConsistencyInUnitRange ==
    (topics_pc = "returned" /\ pages_data /= <<>>) =>
        /\ topic_data.topical_consistency >= 0
        /\ topic_data.topical_consistency <= 1000

\* C7 (as claimed): whenever all non-outlier pages fall in a single topic,
\* with any number of outlier pages, topical_consistency is 1.
C7_SingleTopicIsFullyConsistent ==
    (topics_pc = "returned" /\ pages_data /= <<>>
        /\ Cardinality(NonOutlierIds(topics)) = 1) =>
        topic_data.topical_consistency = 1000

\* C8 (as claimed): for a page list with fewer than 2 pages extract_topics
\* never invokes the dimensionality reducer or the clusterer.
C8_NoClusteringBelowTwoPages ==
    Len(pages_data) < 2 =>
        /\ reducer_calls = <<>>
        /\ clusterer_calls = 0

\* C9 (as claimed): for a page list with fewer than 2 pages extract_topics
\* returns a non-error result with every field present, an empty topics list
\* and topical_consistency, semantic_relevance and outliers all 0.
C9_DegenerateResultBelowTwoPages ==
    (Len(pages_data) < 2 /\ topics_pc \in {"returned", "raised"}) =>
        /\ topics_pc = "returned"
        /\ {"topics", "topical_consistency", "semantic_relevance", "outliers"}
              \subseteq DOMAIN topic_data
        /\ "error" \notin DOMAIN topic_data
        /\ topic_data.topics = <<>>
        /\ topic_data.topical_consistency = 0
        /\ topic_data.semantic_relevance = 0
        /\ topic_data.outliers = 0

-----------------------------------------------------------------------------
(* Claims about calculate_topical_authority_score *)

\* C10 (as claimed): whenever the scorer returns, topical_authority_score
\* lies in [0,100].
C10_ScoreInRange ==
    score_pc = "returned" =>
        /\ authority_score.topical_authority_score >= 0
        /\ authority_score.topical_authority_score <= 10000

\* C11 (as claimed): the grade of every result is the threshold lookup
\* applied to the topical_authority_score returned in that same result.
C11_GradeMatchesReturnedScore ==
    score_pc = "returned" =>
        authority_score.grade = Grade(authority_score.topical_authority_score * 100)

\* the formula of the scorer written out from the inputs, in units of 1e-4
ClaimedBacklinkQuality(moz) ==
    IF "status" \in DOMAIN moz /\ moz.status = "success"
    THEN LET da   == IF "domain_authority" \in DOMAIN moz
                     THEN moz.domain_authority[1] ELSE 0
             spam == IF "spam_score" \in DOMAIN moz THEN moz.spam_score[1] ELSE 0
             rd   == IF "root_domains_linking" \in DOMAIN moz
                     THEN moz.root_domains_linking[1] ELSE 0
             ln10 == IF rd = 0 THEN 0 ELSE IF rd = 150 THEN 501728 ELSE 1000000
         IN  ((IF da < 100 THEN da ELSE 100) * 50000
              + (IF spam * 2 < 100 THEN 100 - spam * 2 ELSE 0) * 20000
              + ln10 * 3) \div 10
    ELSE 500000

ClaimedAgeBonus(dm) ==
    IF "whois" \in DOMAIN dm /\ "domain_age_years" \in DOMAIN dm.whois
       /\ dm.whois.domain_age_years /= <<>>
    THEN IF dm.whois.domain_age_years[1] * 2 < 1000
         THEN dm.whois.domain_age_years[1] * 200 ELSE 100000
    ELSE 0

ClaimedScore(td, dm) ==
    LET sr   == IF "semantic_relevance" \in DOMAIN td
                THEN td.semantic_relevance * 1000 ELSE 0
        tc   == IF "topical_consistency" \in DOMAIN td
                THEN td.topical_consistency * 1000 ELSE 0
        moz  == IF "moz" \in DOMAIN dm THEN dm.moz ELSE [status |-> "absent"]
        sum  == ((sr + tc + ClaimedBacklinkQuality(moz)) \div 3) + ClaimedAgeBonus(dm)
    IN  IF sum < 1000000 THEN sum ELSE 1000000

\* Moz unavailable, relevance 0.8, consistency 0.8, no domain age
ScenarioC ==
    /\ "semantic_relevance" \in DOMAIN topic_data
    /\ topic_data.semantic_relevance = 800
    /\ topic_data.topical_consistency = 800
    /\ "moz" \in DOMAIN domain_metrics
    /\ domain_metrics.moz = EmptyDict
    /\ "domain_age_years" \in DOMAIN domain_metrics.whois
    /\ domain_metrics.whois.domain_age_years = None

\* C12: the returned score is min((100*semantic_relevance +
\* 100*topical_consistency + backlink_quality)/3 + age_bonus, 100), clamped
\* only at 100; with Moz unavailable, relevance 0.8, consistency 0.8 and no
\* domain age the result is backlink_quality 50, domain_age_bonus 0, score
\* 70.0 and grade B.
C12_ScoreFormula ==
    score_pc = "returned" =>
        /\ authority_score.topical_authority_score * 100
              <= ClaimedScore(topic_data, domain_metrics) + 50
        /\ authority_score.topical_authority_score * 100
              > ClaimedScore(topic_data, domain_metrics) - 50
        /\ ScenarioC =>
              /\ authority_score.components.backlink_quality = 5000
              /\ authority_score.components.domain_age_bonus = 0
              /\ authority_score.topical_authority_score = 7000
              /\ authority_score.grade = "B"

\* the scenario was scored: Moz unavailable, no domain age, score 70.0
C12_Witness ==
    /\ score_pc = "returned"
    /\ ScenarioC
    /\ authority_score.topical_authority_score = 7000

MozNotSuccess(dm) ==
    \/ "moz" \notin DOMAIN dm
    \/ "status" \notin DOMAIN dm.moz
    \/ dm.moz.status /= "success"

\* C13: whenever the Moz part of the domain metrics does not have status
\* 'success' (no credentials, provider error, no Moz record at all) the
\* scorer returns normally with backlink_quality = 50, whatever other fields
\* the record holds.
C13_NeutralBacklinkDefault ==
    (score_pc /= "start" /\ MozNotSuccess(domain_metrics)) =>
        /\ score_pc = "returned"
        /\ authority_score.components.backlink_quality = 5000

\* an error record that holds a null metric was scored
C13_Witness ==
    /\ score_pc = "returned"
    /\ "moz" \in DOMAIN domain_metrics
    /\ "status" \in DOMAIN domain_metrics.moz
    /\ domain_metrics.moz.status = "error"
    /\ "domain_authority" \in DOMAIN domain_metrics.moz
    /\ authority_score.components.backlink_quality = 5000

\* the inputs on which the scorer uses the Moz metrics and returns
ScoredWithMoz(td, dm) ==
    /\ "semantic_relevance" \in DOMAIN td
    /\ "moz" \in DOMAIN dm
    /\ MozSucceeded(dm.moz)
    /\ ~BacklinkRaises(dm.moz)

\* (td2, dm2) differs from (td, dm) only by a higher relevance, consistency
\* or domain authority, or a lower spam score
AtLeastAsGood(td2, dm2, td, dm) ==
    /\ td2.semantic_relevance >= td.semantic_relevance
    /\ td2.topical_consistency >= td.topical_consistency
    /\ dm2.moz.domain_authority[1] >= dm.moz.domain_authority[1]
    /\ dm2.moz.spam_score[1] <= dm.moz.spam_score[1]
    /\ dm2.moz.root_domains_linking = dm.moz.root_domains_linking
    /\ dm2.whois = dm.whois

\* C16: with Moz status 'success' and the other inputs held fixed, the
\* returned score does not decrease when semantic_relevance,
\* topical_consistency or domain_authority grows, and does not increase when
\* spam_score grows.
C16_Monotonic ==
    (score_pc = "returned" /\ ScoredWithMoz(topic_data, domain_metrics)) =>
        \A td2 \in TopicDataInputs, dm2 \in DomainMetricsInputs :
            (/\ ScoredWithMoz(td2, dm2)
             /\ AtLeastAsGood(td2, dm2, topic_data, domain_metrics))
            => ScoreResult(td2, dm2).topical_authority_score
                  >= authority_score.topical_authority_score

\* a scored input with spam score 60 whose score with spam score 10 is
\* strictly higher
C16_Witness ==
    /\ score_pc = "returned"
    /\ ScoredWithMoz(topic_data, domain_metrics)
    /\ domain_metrics.moz.spam_score = Some(60)
    /\ ScoreResult(topic_data,
                   [domain_metrics EXCEPT !.moz.spam_score = Some(10)])
           .topical_authority_score
         > authority_score.topical_authority_score

\* score, grade, all four components and interpretation
CompleteScore(score) ==
    /\ DOMAIN score = {"topical_authority_score", "grade", "components",
                       "interpretation"}
    /\ DOMAIN score.components = {"semantic_relevance", "topical_consistency",
                                  "backlink_quality", "domain_age_bonus"}

\* C14 (as claimed): whatever keys are missing and whatever values are null
\* in topic_data and domain_metrics, the scorer returns a complete result and
\* never raises.
C14_ScorerNeverRaises ==
    score_pc \in {"returned", "raised"} =>
        /\ score_pc = "returned"
        /\ CompleteScore(authority_score)

\* analyze_domain has returned its metrics
DomainAnalyzed ==
    /\ main_pc \in {"domain_analyzed", "score_called", "done", "failed"}
    /\ "moz" \in DOMAIN domain_metrics

\* the latest Moz response was successful and lacks metric k
ResponseLacks(k) ==
    /\ moz_response.kind = "http"
    /\ moz_response.status_code = 200
    /\ Len(moz_response.results) > 0
    /\ k \notin DOMAIN moz_response.results[1]

\* C15 (as claimed): a metric missing from a successful Moz response is not
\* replaced by 0 in the metrics analyze_domain hands to the scorer.
C15_MissingMetricIsNotZero ==
    DomainAnalyzed =>
        /\ ResponseLacks("domain_authority")
              => domain_metrics.moz.domain_authority /= Some(0)
        /\ ResponseLacks("spam_score")
              => domain_metrics.moz.spam_score /= Some(0)
        /\ ResponseLacks("root_domains_to_root_domain")
              => domain_metrics.moz.root_domains_linking /= Some(0)

\* C17 (as claimed): the Moz part of every analyze_domain result has a status
\* among success, unavailable and error; it is unavailable exactly when a
\* credential is missing, and then no request was sent to the provider.
C17_MozStatusOfThree ==
    DomainAnalyzed =>
        /\ "status" \in DOMAIN domain_metrics.moz
        /\ domain_metrics.moz.status \in {"success", "unavailable", "error"}
        /\ (domain_metrics.moz.status = "unavailable")
              <=> ~MozConfigured(moz_access_id, moz_secret_key)
        /\ ~MozConfigured(moz_access_id, moz_secret_key) => moz_requests = 0

\* C18 (as claimed): a pipeline run whose crawl returned at least one page
\* ends with a complete AuthorityScore, whatever Moz and WHOIS did.
C18_PipelineAlwaysScores ==
    (main_pc \in {"done", "failed"} /\ Len(pages_data) >= 1) =>
        /\ main_pc = "done"
        /\ score_pc = "returned"
        /\ CompleteScore(authority_score)

\* the report of the i-th call is held by the file sink under the call's id
InFileSink(i) ==
    /\ ReportFileName(save_log[i].returned) \in DOMAIN data_files
    /\ i = Len(save_log) =>
          data_files[ReportFileName(save_log[i].returned)] = save_log[i].report

\* the report of the i-th call is held by the primary sink under the call's id
InPrimarySink(i) ==
    [id |-> save_log[i].returned, payload |-> save_log[i].report] \in seo_reports

\* the request of the i-th call did not come back with a success status
PrimaryFailed(i) ==
    \/ ~save_log[i].configured
    \/ save_log[i].outcome \in {"rejected", "no_answer", "timeout_stored"}

ArtifactsAlone(r) ==
    GenerateReport(<<>>, runs[r].url, runs[r].pages_data, runs[r].topic_data,
                   runs[r].domain_metrics, runs[r].authority_score)

\* C20 (as claimed): a finished run has the page list of its own seed and
\* its persisted report artifacts are the ones it produces when run alone,
\* however the other run was interleaved with it.
C20_RunsDoNotInterfere ==
    \A r \in RunIds :
        runs[r].pc = "done" =>
            /\ runs[r].pages_data = RunPages(RunSeed(r))
            /\ \A name \in DOMAIN ArtifactsAlone(r) :
                  /\ name \in DOMAIN cwd_files
                  /\ cwd_files[name] = ArtifactsAlone(r)[name]
            /\ DOMAIN cwd_files = DOMAIN ArtifactsAlone(r)

-----------------------------------------------------------------------------
(* Claims about the topic metrics, the crawl loop and the report ids *)

\* the unordered pairs of distinct pages that share a non-outlier topic
SameTopicPairs ==
    {p \in (DOMAIN topics) \X (DOMAIN topics) :
        /\ p[1] < p[2]
        /\ topics[p[1]] = topics[p[2]]
        /\ topics[p[1]] /= OutlierId}

\* the sum of the cosine similarities of these pairs, in thousandths: 1 for
\* two pages of the same direction, -0.5 for two pages 120 degrees apart
SameTopicSimilaritySum ==
    1000 * Cardinality({p \in SameTopicPairs :
                            embeddings[p[1]] = embeddings[p[2]]})
    - 500 * Cardinality({p \in SameTopicPairs :
                            embeddings[p[1]] /= embeddings[p[2]]})

\* C21: semantic_relevance is the mean cosine similarity over the unordered
\* pairs of distinct pages that share a non-outlier topic, each pair counted
\* once, all topics pooled into one mean, and 0 when there is no such pair.
C21_PooledPairMean ==
    (topics_pc = "returned" /\ pages_data /= <<>>) =>
        topic_data.semantic_relevance =
            IF SameTopicPairs = {} THEN 0
            ELSE RoundDiv(SameTopicSimilaritySum, Cardinality(SameTopicPairs))

\* five pages: a topic of three with one page pointing elsewhere and two
\* outlier pages of the same direction
C21_Witness ==
    /\ topics_pc = "returned"
    /\ Len(pages_data) = 5
    /\ Cardinality(Members(topics, 0)) = 3
    /\ Cardinality(Members(topics, OutlierId)) = 2
    /\ \A i \in Members(topics, OutlierId), k \in Members(topics, OutlierId) :
          embeddings[i] = embeddings[k]
    /\ topic_data.semantic_relevance = 0

\* C22: no two PageRecords of one crawl have the same url, however often a
\* URL is linked and however often it sits in the frontier.
C22_UniquePageUrls ==
    \A i \in DOMAIN pages_data, k \in DOMAIN pages_data :
        pages_data[i].url = pages_data[k].url => i = k

\* a URL that already has a PageRecord came off the frontier again and was
\* skipped
C22_Witness ==
    /\ last_fetch.kind = "skip"
    /\ \E i \in DOMAIN pages_data : pages_data[i].url = last_fetch.url

\* C23 (as claimed): a page has a PageRecord only when its title, meta
\* description and body together hold more than 50 characters, and a crawl
\* that fetched only a seed page with a one-character title, no meta
\* description and a body below 50 characters returns no PageRecord.
C23_RecordOnlyAboveThreshold ==
    /\ \A i \in DOMAIN pages_data :
          pages_data[i].title + pages_data[i].meta_description
              + pages_data[i].body_text > MinContentLen
    /\ (crawl_pc = "returned" /\ requests = <<url>> /\ pages_data /= <<>>) =>
          ~(/\ pages_data[1].title = 1
            /\ pages_data[1].meta_description = 0
            /\ pages_data[1].body_text < MinContentLen)

\* C28: on a finite site, with any pattern of failed requests and of pages
\* below the content threshold, crawl_website returns.
C28_CrawlTerminates == <>(crawl_pc = "returned")

\* the crawl returned after requesting one URL twice and keeping no page
C28_Witness ==
    /\ crawl_pc = "returned"
    /\ pages_data = <<>>
    /\ \E i \in DOMAIN requests, k \in DOMAIN requests :
          i < k /\ requests[i] = requests[k]

\* s is a prefix of t
IsPrefix(s, t) ==
    /\ Len(s) <= Len(t)
    /\ SubSeq(t, 1, Len(s)) = s

\* C30: every request is for the head of the frontier, beginning with the
\* seed, and new URLs join the frontier at its tail; a PageRecord is appended
\* to the result by the step that fetched its URL; once the result holds
\* max_pages records nothing is requested and nothing is enqueued.
C30_BreadthFirst ==
    /\ [][/\ requests' /= requests =>
                requests' = Append(requests, Head(to_visit))
          /\ to_visit' /= to_visit => IsPrefix(Tail(to_visit), to_visit')
          /\ pages_data' /= pages_data =>
                /\ requests' /= requests
                /\ Len(pages_data') = Len(pages_data) + 1
                /\ IsPrefix(pages_data, pages_data')
                /\ pages_data'[Len(pages_data')].url = Head(to_visit)
          /\ Len(pages_data) >= max_pages =>
                requests' = requests /\ to_visit' = to_visit
          /\ Len(pages_data') >= max_pages => Len(to_visit') <= Len(to_visit)
         ]_vars
    /\ [](requests /= <<>> => requests[1] = url)

\* the budget of two pages was used up while the frontier still held a URL
C30_Witness ==
    /\ crawl_pc = "returned"
    /\ max_pages = 2
    /\ Len(pages_data) = 2
    /\ to_visit /= <<>>

\* C26 (as claimed): the distribution behind topical_consistency has one
\* term per non-outlier topic, the terms are page counts of non-outlier
\* topics, so that divided by the number of non-outlier pages they sum to 1.
C26_DistributionOverTopicsOnly ==
    (topics_pc = "returned" /\ pages_data /= <<>> /\ TotalDocs(topics) > 0) =>
        /\ Len(DistributionCounts(topics)) = Cardinality(NonOutlierIds(topics))
        /\ SumSeq(DistributionCounts(topics)) = TotalDocs(topics)

\* the domain age the metrics hold, if any
AgeIsAbsent(dm) ==
    \/ "whois" \notin DOMAIN dm
    \/ "domain_age_years" \notin DOMAIN dm.whois
    \/ dm.whois.domain_age_years = None

\* C27 (as claimed): for every domain age analyze_domain hands to the scorer
\* the domain_age_bonus component lies in [0,10], and it is 0 when the age is
\* absent.
C27_AgeBonusInRange ==
    (main_pc \in {"score_called", "done"} /\ score_pc = "returned") =>
        /\ authority_score.components.domain_age_bonus >= 0
        /\ authority_score.components.domain_age_bonus <= 1000
        /\ AgeIsAbsent(domain_metrics) =>
              authority_score.components.domain_age_bonus = 0

\* C29 (as claimed): no two save_report calls return the same report id, and
\* the file a call wrote still holds that call's report.
C29_ReportIdsAreUnique ==
    \A i \in DOMAIN save_log, k \in DOMAIN save_log :
        /\ (i /= k) => save_log[i].returned /= save_log[k].returned
        /\ save_log[i].file_written =>
              data_files[ReportFileName(save_log[i].returned)]
                  = save_log[i].report

-----------------------------------------------------------------------------
(* Claims about the analyzers *)

\* the words of the page text that the analysis keeps
PageWordsKept ==
    {Lower(kw_args.text[k]) : k \in DOMAIN kw_args.text} \ STOPWORDS

\* C24: whatever the text, URL and title and whatever the SERP lookup gave,
\* the returned seo_keywords has at most top_n entries, is in non-increasing
\* order of relevance_score, and holds no stop word and no word whose
\* count_on_page is 0.
C24_SeoKeywordsWellFormed ==
    (kw_result /= <<>> /\ "seo_keywords" \in DOMAIN kw_result) =>
        LET seo_keywords == kw_result.seo_keywords
        IN  /\ Len(seo_keywords) <= kw_args.top_n
            /\ \A a, b \in DOMAIN seo_keywords :
                  a < b => seo_keywords[a].relevance_score
                              >= seo_keywords[b].relevance_score
            /\ \A k \in DOMAIN seo_keywords :
                  /\ seo_keywords[k].keyword \notin STOPWORDS
                  /\ seo_keywords[k].keyword \notin {"stock", "nova", "angebot"}
                  /\ seo_keywords[k].count_on_page /= 0

\* the text holds a stop word and more kept words than top_n, the detected
\* topic is not a word of the text, the SERP lookup gave related keywords,
\* and top_n keywords are returned
C24_Witness ==
    /\ kw_result /= <<>>
    /\ "seo_keywords" \in DOMAIN kw_result
    /\ kw_result.method = "serp_enhanced"
    /\ kw_result.related_searches /= <<>>
    /\ \E k \in DOMAIN kw_args.text : Lower(kw_args.text[k]) \in {"stock", "nova"}
    /\ Val(kw_result.detected_topic) \notin PageWordsKept
    /\ kw_args.top_n >= 1
    /\ Len(kw_result.seo_keywords) = kw_args.top_n
    /\ Cardinality(PageWordsKept) > kw_args.top_n

\* the provider is configured and its call ended with insights
ProviderSucceeded(provider) ==
    /\ ai_keys[provider] /= ""
    /\ \E k \in DOMAIN ai_results :
          /\ ai_results[k].provider = provider
          /\ ai_results[k].outcome = "insights"

ConfiguredProviders == {provider \in DOMAIN ai_keys : ai_keys[provider] /= ""}

\* C25: in 'auto' mode the result is the insights of the first of OpenAI,
\* Gemini, Claude that is configured and succeeded, tagged with it as
\* primary_provider; the error is 'No AI provider configured' exactly when
\* none is configured, and 'All AI providers failed' exactly when some are
\* configured and each of them failed.
C25_FirstSuccessfulProvider ==
    ai_return /= <<>> =>
        /\ (ConfiguredProviders = {})
              <=> (/\ "error" \in DOMAIN ai_return
                   /\ ai_return.error = "No AI provider configured")
        /\ (/\ ConfiguredProviders /= {}
            /\ \A provider \in ConfiguredProviders : ~ProviderSucceeded(provider))
              <=> (/\ "error" \in DOMAIN ai_return
                   /\ ai_return.error = "All AI providers failed")
        /\ ProviderSucceeded("openai") =>
              /\ "error" \notin DOMAIN ai_return
              /\ ai_return.primary_provider = "openai"
              /\ ai_return.summary = <<"insights of", "openai">>
        /\ (~ProviderSucceeded("openai") /\ ProviderSucceeded("gemini")) =>
              /\ "error" \notin DOMAIN ai_return
              /\ ai_return.primary_provider = "gemini"
              /\ ai_return.summary = <<"insights of", "gemini">>
        /\ (/\ ~ProviderSucceeded("openai")
            /\ ~ProviderSucceeded("gemini")
            /\ ProviderSucceeded("claude")) =>
              /\ "error" \notin DOMAIN ai_return
              /\ ai_return.primary_provider = "claude"
              /\ ai_return.summary = <<"insights of", "claude">>

\* OpenAI is configured and failed, Gemini and Claude both succeeded, and the
\* result is Gemini's
C25_Witness ==
    /\ ai_return /= <<>>
    /\ ConfiguredProviders = {"openai", "gemini", "claude"}
    /\ ~ProviderSucceeded("openai")
    /\ ProviderSucceeded("gemini")
    /\ ProviderSucceeded("claude")
    /\ ai_return.primary_provider = "gemini"

====
